---- MODULE Spec2Model ----
(***************************************************************************)
(* Model of the scripts of skg-main/scripts:                               *)
(*   mock_kg_gen.py        the mock generator (extract_entities,           *)
(*                         extract_relations) and its command line         *)
(*   kg_gen_cli.py         the command line around the real KGGen          *)
(*   direct_kggen_test.py  the demo run of the real KGGen                  *)
(*                                                                         *)
(* Three specifications:                                                   *)
(*   Spec     one run of the mock generator on an input text               *)
(*   RelSpec  extract_relations on the entity lists extract_entities       *)
(*            builds, up to MaxEntities entities                           *)
(*   CliSpec  one run of a script's main(), with the environment           *)
(*            (arguments, files, directories, key, KGGen) chosen at start  *)
(***************************************************************************)
EXTENDS Integers, Sequences, FiniteSets, TLC

VARIABLES
    text,          \* Spec: the input text, a sequence of characters
    entities,      \* the entity list (mock_kg_gen.py: entities)
    entity_map,    \* label -> id (mock_kg_gen.py: entity_map)
    relations,     \* the relation types returned by extract_relations
    triples,       \* the triples returned by extract_relations
    raised,        \* TRUE when a generator function raised an exception
    pc,            \* position of the run
    script,        \* CliSpec: which script runs
    env,           \* CliSpec: the environment of the run (fixed at start)
    graph,         \* CliSpec: what KGGen.generate returned
    fragment,      \* CliSpec: the fragment built by the script
    fs,            \* CliSpec: what the run did to the file system
    steps,         \* CliSpec: the pipeline steps run so far, with their outcome
    exit_code      \* CliSpec: the exit status, -1 while running

vars == <<text, entities, entity_map, relations, triples, raised, pc,
          script, env, graph, fragment, fs, steps, exit_code>>

genVars == <<text, entities, entity_map, relations, triples, raised>>
cliVars == <<script, env, graph, fragment, fs, steps, exit_code>>

----------------------------------------------------------------------------
(* Bounds of the model *)

\* Spec: an input text is made of at most MaxPieces pieces of Pieces
MaxPieces == 3
\* RelSpec: entity lists of up to MaxEntities entities
MaxEntities == 7
\* CliSpec: the input file of mock_kg_gen.py holds at most MaxCliPieces pieces
MaxCliPieces == 1
\* CliSpec: at most MaxMissing directories of the output path do not exist
MaxMissing == 2

----------------------------------------------------------------------------
(* Helpers *)

Min(a, b) == IF a <= b THEN a ELSE b
Max(a, b) == IF a >= b THEN a ELSE b
Range(s) == {s[i] : i \in DOMAIN s}

RECURSIVE Join(_)
\* the string made of the characters cs
Join(cs) == IF cs = <<>> THEN "" ELSE Head(cs) \o Join(Tail(cs))

RECURSIVE Flatten(_)
\* the concatenation of a sequence of character sequences
Flatten(ps) == IF ps = <<>> THEN <<>> ELSE Head(ps) \o Flatten(Tail(ps))

\* all sequences of length at most n over S
SeqsUpTo(S, n) == UNION {[1..k -> S] : k \in 0..n}

RECURSIVE Enumerations(_)
\* all sequences that list every element of the set S exactly once
Enumerations(S) ==
    IF S = {} THEN {<<>>}
    ELSE UNION {{<<x>> \o o : o \in Enumerations(S \ {x})} : x \in S}

----------------------------------------------------------------------------
(* Characters and the regular expression \b[A-Z][a-z]+\b *)

UpperChars == {"A","B","C","D","E","F","G","H","I","J","K","L","M",
               "N","O","P","Q","R","S","T","U","V","W","X","Y","Z"}
LowerChars == {"a","b","c","d","e","f","g","h","i","j","k","l","m",
               "n","o","p","q","r","s","t","u","v","w","x","y","z"}
DigitChars == {"0","1","2","3","4","5","6","7","8","9"}

\* \w of a str pattern: letters, digits and the underscore
IsWordChar(c) == c \in UpperChars \cup LowerChars \cup DigitChars \cup {"_"}

\* \b at the gap before position p of t (p in 1..Len(t)+1)
IsBoundary(t, p) ==
    LET before == p > 1 /\ IsWordChar(t[p - 1])
        after  == p <= Len(t) /\ IsWordChar(t[p])
    IN  before # after

RECURSIVE LowerRunEnd(_, _)
\* the last position of the longest run of [a-z] that starts at p (p-1 if none)
LowerRunEnd(t, p) ==
    IF p <= Len(t) /\ t[p] \in LowerChars THEN LowerRunEnd(t, p + 1) ELSE p - 1

RECURSIVE BacktrackEnd(_, _, _)
\* [a-z]+ is greedy: try the longest run first, then give characters back
\* until \b holds after the match; 0 when no end works
BacktrackEnd(t, s, e) ==
    IF e <= s THEN 0
    ELSE IF IsBoundary(t, e + 1) THEN e
    ELSE BacktrackEnd(t, s, e - 1)

\* the end of the match of \b[A-Z][a-z]+\b starting at s, 0 when none
MatchEnd(t, s) ==
    IF IsBoundary(t, s) /\ t[s] \in UpperChars
    THEN BacktrackEnd(t, s, LowerRunEnd(t, s + 1))
    ELSE 0

\* re.findall: leftmost matches, not overlapping, in text order; from[p] is
\* the list of the matches found from position p on
FindAll(t) ==
    LET from[p \in 1..(Len(t) + 1)] ==
            IF p > Len(t) THEN <<>>
            ELSE LET e == MatchEnd(t, p)
                 IN  IF e > 0
                     THEN <<Join(SubSeq(t, p, e))>> \o from[e + 1]
                     ELSE from[p + 1]
    IN  from[1]

----------------------------------------------------------------------------
(* mock_kg_gen.py: extract_entities *)

Days == {"Monday", "Tuesday", "Wednesday", "Thursday", "Friday", "Saturday",
         "Sunday"}
Months == {"January", "February", "March", "April", "May", "June", "July",
           "August", "September", "October", "November", "December"}
Cities == {"Paris", "London", "Berlin", "Rome", "Madrid", "Vienna",
           "Amsterdam"}
Countries == {"France", "Germany", "Italy", "Spain", "Netherlands", "Austria",
              "UK", "United"}

\* the chain with the test of the cities list left out
EntityTypeNoCities(word) ==
    IF word \in Days THEN "Day"
    ELSE IF word \in Months THEN "Month"
    ELSE IF word \in Countries THEN "Country"
    ELSE "Concept"

\* the if / elif chain that assigns entity_type
EntityType(word) ==
    IF word \in Days THEN "Day"
    ELSE IF word \in Months THEN "Month"
    ELSE IF word \in Cities THEN "City"
    ELSE IF word \in Countries THEN "Country"
    ELSE "Concept"

\* f"e{i+1}"
EntityId(i) == "e" \o ToString(i + 1)

\* the orders in which "for i, word in enumerate(words)" would visit the
\* words without set(): the one order of the list, duplicates included
IterationOrdersOfList(words) == {words}

\* the orders in which "for i, word in enumerate(set(words))" may visit the
\* distinct words: a set of str iterates in an order the language leaves open
IterationOrders(words) ==
    UNION {Enumerations(distinct) : distinct \in {Range(words)}}

RECURSIVE EntityLoop(_, _, _, _)
\* the loop body, for the words of order from 0-based index i on
EntityLoop(order, i, ents, map) ==
    IF i >= Len(order) THEN [entities |-> ents, entity_map |-> map]
    ELSE LET word      == order[i + 1]
             entity_id == EntityId(i)
         IN  EntityLoop(order, i + 1,
                        Append(ents, [id    |-> entity_id,
                                      label |-> word,
                                      type  |-> EntityType(word)]),
                        (word :> entity_id) @@ map)

\* what extract_entities returns when the words are visited in this order
BuildEntities(order) == EntityLoop(order, 0, <<>>, <<>>)

\* every (entities, entity_map) extract_entities(t) may return
extract_entities(t) == {BuildEntities(o) : o \in IterationOrders(FindAll(t))}

----------------------------------------------------------------------------
(* mock_kg_gen.py: extract_relations *)

relation_types == <<"relates_to", "part_of", "associated_with", "belongs_to">>

\* a cap of the triple loop that is one too high
TripleCapRaised == 5 + 1

\* the cap of the triple loop, range(min(len(entities)-1, 5))
TripleCap == 5

\* s[:k] of a Python list: a negative k counts from the end
SlicePrefix(s, k) ==
    IF k >= 0 THEN SubSeq(s, 1, Min(k, Len(s)))
    ELSE SubSeq(s, 1, Max(Len(s) + k, 0))

\* a selection sized by len(entities) instead of len(entities)-1
SelectRelationsAll(n) ==
    SlicePrefix(relation_types, Min(n, Len(relation_types)))

\* the relation types selected for n entities
SelectRelations(n) ==
    IF n = 2 THEN SlicePrefix(relation_types, 1)
    ELSE SlicePrefix(relation_types, Min(n - 1, Len(relation_types)))

\* a loop bound that is off by one: range(min(len(entities), 5))
LoopCountOffByOne(n) == Max(Min(n, TripleCap), 0)

\* the number of iterations of range(min(len(entities)-1, 5))
LoopCount(n) == Max(Min(n - 1, TripleCap), 0)

\* the object of iteration i without the "+ 1": entities[i % len(entities)]
ObjectIndexSame(i, n) == i % n

\* the 0-based index of the object of iteration i: (i+1) % len(entities)
ObjectIndex(i, n) == (i + 1) % n

\* the 0-based index of the predicate of iteration i among m selected types
PredicateIndex(i, m) == i % m

RECURSIVE TripleLoop(_, _, _, _)
\* the loop "for i in range(...)", from iteration i on; raised is TRUE when
\* an index is out of range or the modulus is zero
TripleLoop(ents, selected, i, acc) ==
    IF i >= LoopCount(Len(ents)) THEN [triples |-> acc, raised |-> FALSE]
    ELSE IF Len(ents) = 0 \/ Len(selected) = 0
              \/ i >= Len(ents)
              \/ PredicateIndex(i, Len(selected)) >= Len(selected)
         THEN [triples |-> acc, raised |-> TRUE]
    ELSE LET subject_entity == ents[i + 1]
             object_entity  == ents[ObjectIndex(i, Len(ents)) + 1]
             relation       == selected[PredicateIndex(i, Len(selected)) + 1]
         IN  TripleLoop(ents, selected, i + 1,
                        Append(acc, [subject   |-> subject_entity.id,
                                     predicate |-> relation,
                                     object    |-> object_entity.id]))

\* lines 51-73: the selection of the relation types and the triple loop
RelationsAndTriples(ents) ==
    LET selected == SelectRelations(Len(ents))
        loop     == TripleLoop(ents, selected, 0, <<>>)
    IN  [relations |-> IF loop.raised THEN <<>> ELSE selected,
         triples   |-> IF loop.raised THEN <<>> ELSE loop.triples,
         raised    |-> loop.raised]

\* extract_relations without its early return
extract_relations_unguarded(ents, map) == RelationsAndTriples(ents)

\* extract_relations(entities, entity_map): (selected_relations, triples)
extract_relations(ents, map) ==
    IF Len(ents) < 2
    THEN [relations |-> <<>>, triples |-> <<>>, raised |-> FALSE]
    ELSE RelationsAndTriples(ents)

----------------------------------------------------------------------------
(* Spec: one run of the mock generator on an input text *)

\* the pieces input texts are made of: words, single characters (a
\* separator, a lowercase letter, an uppercase letter, a digit) and a sentence
WordPieces == {
    <<"M","o","n","d","a","y">>,
    <<"B","e","r","l","i","n">>,
    <<"F","r","a","n","c","e">>,
    <<"N","e","u","r","a","l">> }

CharPieces == { <<" ">>, <<"s">>, <<"K">>, <<"1">> }

Sentence == <<"P","a","r","i","s"," ","i","s"," ","n","i","c","e"," ",
              "i","n"," ","J","u","n","e",".">>

Pieces == WordPieces \cup CharPieces \cup {Sentence}

Texts == {Flatten(ps) : ps \in SeqsUpTo(Pieces, MaxPieces)}

\* the variables of CliSpec, which Spec and RelSpec leave alone
CliIdle ==
    /\ script = "none"
    /\ env = <<>>
    /\ graph = <<>>
    /\ fragment = <<>>
    /\ fs = <<>>
    /\ steps = <<>>
    /\ exit_code = -1

Init ==
    /\ text \in Texts
    /\ entities = <<>>
    /\ entity_map = <<>>
    /\ relations = <<>>
    /\ triples = <<>>
    /\ raised = FALSE
    /\ pc = "start"
    /\ CliIdle

\* entities, entity_map = extract_entities(text)
ExtractEntities ==
    /\ pc = "start"
    /\ \E r \in extract_entities(text) :
          /\ entities' = r.entities
          /\ entity_map' = r.entity_map
    /\ pc' = "entities"
    /\ UNCHANGED <<text, relations, triples, raised, cliVars>>

\* relations, triples = extract_relations(entities, entity_map)
ExtractRelations ==
    /\ pc = "entities"
    /\ LET r == extract_relations(entities, entity_map)
       IN  /\ relations' = r.relations
           /\ triples' = r.triples
           /\ raised' = r.raised
    /\ pc' = "done"
    /\ UNCHANGED <<text, entities, entity_map, cliVars>>

Next == ExtractEntities \/ ExtractRelations

Spec == Init /\ [][Next]_vars

----------------------------------------------------------------------------
(* RelSpec: extract_relations on the entity lists extract_entities builds *)

AllLabels == <<"Monday", "June", "Berlin", "France", "Neural", "Paris",
               "Networks", "Deep", "Layer", "Transformers">>

\* the labels entity lists are built of
PoolLabels == {AllLabels[i] : i \in 1..Min(MaxEntities, Len(AllLabels))}

RelInit ==
    /\ text = <<>>
    /\ \E S \in SUBSET PoolLabels :
          \E o \in Enumerations(S) :
             LET r == BuildEntities(o)
             IN  /\ entities = r.entities
                 /\ entity_map = r.entity_map
    /\ relations = <<>>
    /\ triples = <<>>
    /\ raised = FALSE
    /\ pc = "entities"
    /\ CliIdle

RelNext == ExtractRelations

RelSpec == RelInit /\ [][RelNext]_vars

----------------------------------------------------------------------------
(* Claims about the mock generator *)

\* the capitalized-word tokens of t, stated without the scan: an uppercase
\* letter followed by one or more lowercase letters, with no word character
\* right before or right after
Tokens(t) ==
    {Join(SubSeq(t, s, e)) : <<s, e>> \in
        {se \in (1..Len(t)) \X (1..Len(t)) :
            /\ se[1] < se[2]
            /\ t[se[1]] \in UpperChars
            /\ \A k \in (se[1] + 1)..se[2] : t[k] \in LowerChars
            /\ (se[1] = 1 \/ ~IsWordChar(t[se[1] - 1]))
            /\ (se[2] = Len(t) \/ ~IsWordChar(t[se[2] + 1]))}}

ExpectedIds == <<"e1", "e2", "e3", "e4", "e5", "e6", "e7", "e8", "e9", "e10">>

\* C4: once extract_entities has returned, there is exactly one entity per
\* distinct capitalized-word token of the text, the ids are e1..eN in list
\* order with none repeated, no label is repeated, and entity_map maps each
\* label to the id of the entity that carries it.
C4_OneEntityPerToken ==
    pc \in {"entities", "done"} =>
        /\ Len(entities) = Cardinality(Tokens(text))
        /\ {entities[i].label : i \in DOMAIN entities} = Tokens(text)
        /\ \A i \in DOMAIN entities :
              i <= Len(ExpectedIds) => entities[i].id = ExpectedIds[i]
        /\ \A i, j \in DOMAIN entities :
              i # j => /\ entities[i].id # entities[j].id
                       /\ entities[i].label # entities[j].label
        /\ DOMAIN entity_map = Tokens(text)
        /\ \A i \in DOMAIN entities :
              entity_map[entities[i].label] = entities[i].id

\* a text in which a token occurs twice has been turned into two entities
C4_Witness ==
    /\ pc = "entities"
    /\ Len(FindAll(text)) > Len(entities)
    /\ Len(entities) = 2

\* C5: the type of every entity is decided by its label alone: Day for a
\* label of the days list, else Month for the months list, else City for the
\* cities list, else Country for the countries list, else Concept; so
\* Monday is a Day, Berlin a City and Neural a Concept wherever they stand.
C5_TypeByLabel ==
    \A i \in DOMAIN entities :
        LET l == entities[i].label
            t == entities[i].type
        IN  /\ l \in Days => t = "Day"
            /\ l \in Months \ Days => t = "Month"
            /\ l \in Cities \ (Days \cup Months) => t = "City"
            /\ l \in Countries \ (Days \cup Months \cup Cities) => t = "Country"
            /\ l \notin Days \cup Months \cup Cities \cup Countries => t = "Concept"
            /\ l = "Monday" => t = "Day"
            /\ l = "Berlin" => t = "City"
            /\ l = "June" => t = "Month"
            /\ l = "France" => t = "Country"
            /\ l = "Neural" => t = "Concept"

\* Berlin is typed City as the second entity, after an entity of another type
C5_Witness ==
    /\ pc = "entities"
    /\ Len(entities) = 2
    /\ entities[2].label = "Berlin" /\ entities[2].type = "City"
    /\ entities[1].type \in {"Day", "Concept"}

\* C6: a text with fewer than two distinct capitalized-word tokens, the empty
\* text included, gives empty relations and empty triples, and nothing raises.
C6_FewTokensEmpty ==
    (pc = "done" /\ Cardinality(Tokens(text)) < 2) =>
        /\ Len(entities) < 2
        /\ relations = <<>>
        /\ triples = <<>>
        /\ ~raised

\* the run on a text with a single token (one entity) has ended
C6_Witness ==
    /\ pc = "done"
    /\ Cardinality(Tokens(text)) = 1
    /\ Len(entities) = 1
    /\ relations = <<>>
    /\ triples = <<>>

EntityIds == {entities[i].id : i \in DOMAIN entities}

\* C1: for N >= 2 entities, extract_relations returns min(N-1, 5) triples and
\* the subject and the object of each is the id of an entity of the list.
C1_TripleCount ==
    (pc = "done" /\ Len(entities) >= 2) =>
        /\ ~raised
        /\ Len(triples) = Min(Len(entities) - 1, 5)
        /\ \A k \in DOMAIN triples :
              /\ triples[k].subject \in EntityIds
              /\ triples[k].object \in EntityIds

\* seven entities: the cap of five triples applies
C1_Witness ==
    /\ pc = "done"
    /\ Len(entities) = 7
    /\ Len(triples) = 5

\* C2 as stated: at a small entity count (2 up to the cap of the loop) some
\* triple leads back to the first entity.
C2_CycleToFirst ==
    (pc = "done" /\ Len(entities) >= 2 /\ Len(entities) <= 5) =>
        \E k \in DOMAIN triples : triples[k].object = entities[1].id

\* C2, amended: for N >= 2 entities no triple has the first entity as its
\* object; the object of the triple of iteration i is entity i+1, so the
\* modulus never wraps.
C2_NoCycleToFirst ==
    (pc = "done" /\ Len(entities) >= 2) =>
        \A k \in DOMAIN triples :
            /\ triples[k].object # entities[1].id
            /\ k + 1 <= Len(entities)
            /\ triples[k].object = entities[k + 1].id

\* two entities: the one triple leads from the first to the second
C2_Witness ==
    /\ pc = "done"
    /\ Len(entities) = 2
    /\ Len(triples) = 1
    /\ triples[1].object = entities[2].id

\* C3: for N >= 2 entities the relations are the first min(N-1, 4) of the four
\* relation types (one when N = 2), and triple i (from 0) is
\* (entities[i].id, relations[i mod len(relations)], entities[(i+1) mod N].id)
\* for every i below min(N-1, 5).
C3_RelationsAndTriples ==
    (pc = "done" /\ Len(entities) >= 2) =>
        LET N == Len(entities)
        IN  /\ relations = SubSeq(<<"relates_to", "part_of", "associated_with",
                                    "belongs_to">>, 1, Min(N - 1, 4))
            /\ N = 2 => Len(relations) = 1
            /\ DOMAIN triples = 1..Min(N - 1, 5)
            /\ \A i \in 0..(Min(N - 1, 5) - 1) :
                  triples[i + 1] =
                      [subject   |-> entities[i + 1].id,
                       predicate |-> relations[(i % Len(relations)) + 1],
                       object    |-> entities[((i + 1) % N) + 1].id]

\* six entities or more: the fifth triple takes the first relation type again
C3_Witness ==
    /\ pc = "done"
    /\ Len(entities) >= 6
    /\ Len(relations) = 4
    /\ Len(triples) = 5
    /\ triples[5].predicate = "relates_to"

\* C10: the predicate of every triple is one of the returned relations, every
\* returned relation is the predicate of some triple, and the relations are
\* empty exactly when the triples are.
C10_RelationsMatchTriples ==
    pc = "done" =>
        /\ \A k \in DOMAIN triples : triples[k].predicate \in Range(relations)
        /\ \A r \in Range(relations) :
              \E k \in DOMAIN triples : triples[k].predicate = r
        /\ (relations = <<>>) <=> (triples = <<>>)

\* four entities: three relation types, each used by one triple
C10_Witness ==
    /\ pc = "done"
    /\ Len(entities) = 4
    /\ Len(relations) = 3
    /\ Len(triples) = 3

----------------------------------------------------------------------------
(* CliSpec: one run of main() of a script *)

Scripts == {"kg_gen_cli", "mock_kg_gen", "direct_kggen_test"}

\* an optional value: <<>> is None, <<v>> is the value v
None == <<>>
Some(v) == <<v>>

\* the truth value Python gives an optional string: None and "" are false
Truthy(o) == o # None /\ o[1] # ""

\* "if not api_key" with the key compared to None only
ApiKeyIsNone(key) == key = None

\* "if not api_key": the variable is unset or set to the empty string
ApiKeyMissing(key) == ~Truthy(key)

ApiKeys == {None, Some(""), Some("sk-test")}

\* the graphs KGGen.generate may return (entities with an optional type)
Graphs == {
    [entities |-> <<>>, relations |-> <<>>, triples |-> <<>>],
    [entities  |-> <<[id |-> "n1", label |-> "Neural Networks", type |-> None],
                     [id |-> "n2", label |-> "Deep Learning", type |-> Some("Topic")],
                     [id |-> "n3", label |-> "Layer", type |-> Some("")]>>,
     relations |-> <<"is_a", "has">>,
     triples   |-> <<[subject |-> "n2", predicate |-> "is_a", object |-> "n1"],
                     [subject |-> "n1", predicate |-> "has", object |-> "n3"]>>] }

\* the input paths of the runs
InputPaths == {
    <<"n","o","t","e","s","/","a","b","-","1",".","t","x","t">>,
    <<"n",".","m","d">> }

\* the texts the input file of mock_kg_gen.py may hold
CliTexts == {Flatten(ps) : ps \in SeqsUpTo(Pieces, MaxCliPieces)}

RECURSIVE Basename(_)
\* os.path.basename: what follows the last "/"
Basename(path) ==
    IF \E k \in DOMAIN path : path[k] = "/" THEN Basename(Tail(path)) ELSE path

RECURSIVE SplitFirst(_, _)
\* s.split(sep)[0]: what precedes the first sep
SplitFirst(cs, sep) ==
    IF cs = <<>> \/ Head(cs) = sep THEN <<>>
    ELSE <<Head(cs)>> \o SplitFirst(Tail(cs), sep)

\* the entities, relations and triples of a graph in the output format
\* (e.type or "Concept")
ConvertGraph(g) ==
    [entities  |-> [i \in DOMAIN g.entities |->
                       [id    |-> g.entities[i].id,
                        label |-> g.entities[i].label,
                        type  |-> IF Truthy(g.entities[i].type)
                                  THEN g.entities[i].type[1]
                                  ELSE "Concept"]],
     relations |-> g.relations,
     triples   |-> [i \in DOMAIN g.triples |->
                       [subject   |-> g.triples[i].subject,
                        predicate |-> g.triples[i].predicate,
                        object    |-> g.triples[i].object]]]

\* the environments of a run: what the claims read of the arguments, the
\* files and the variables; the fields a script does not read are fixed.
\* missing counts the directories of the output path that do not exist yet
Envs(sc) ==
    {e \in [input_path : IF sc = "direct_kggen_test" THEN {<<>>} ELSE InputPaths,
            text       : IF sc = "mock_kg_gen" THEN CliTexts ELSE {Sentence},
            api_key    : IF sc = "mock_kg_gen" THEN {None} ELSE ApiKeys,
            has_dir    : IF sc = "direct_kggen_test" THEN {TRUE} ELSE BOOLEAN,
            missing    : 0..MaxMissing,
            writable   : BOOLEAN] :
        \* a path without a directory part names a file of the current directory
        ~e.has_dir => e.missing = 0}

CliInit ==
    /\ script \in Scripts
    /\ env \in Envs(script)
    /\ pc = IF script = "mock_kg_gen" THEN "parse" ELSE "import"
    /\ text = <<>>
    /\ entities = <<>>
    /\ entity_map = <<>>
    /\ relations = <<>>
    /\ triples = <<>>
    /\ raised = FALSE
    /\ graph = None
    /\ fragment = None
    /\ fs = [dirs |-> 0, file |-> "none", content |-> None]
    /\ steps = <<>>
    /\ exit_code = -1

\* the exit status with the handler of a failed write of mock_kg_gen.py
\* falling through to sys.exit(0)
ExitOnFailureFallThrough(sc, step) ==
    IF step = "parse" THEN 2
    ELSE IF sc = "mock_kg_gen" /\ step = "write" THEN 0
    ELSE 1

\* the exit status of a run that fails in step: argparse exits with 2,
\* sys.exit(1) / exit(1) and an uncaught exception with 1
ExitOnFailure(sc, step) == IF step = "parse" THEN 2 ELSE 1

\* step fails: the message is printed and the process exits
Fail(step) ==
    /\ steps' = Append(steps, <<step, "fail">>)
    /\ exit_code' = ExitOnFailure(script, step)
    /\ pc' = "exited"

\* step succeeds and the run goes on at next
Pass(step, next) ==
    /\ steps' = Append(steps, <<step, "ok">>)
    /\ exit_code' = exit_code
    /\ pc' = next

\* the last step succeeds and the process exits with 0
Finish(step) ==
    /\ steps' = Append(steps, <<step, "ok">>)
    /\ exit_code' = 0
    /\ pc' = "exited"

mockVars == <<entities, entity_map, relations, triples, raised>>

(* kg_gen_cli.py *)

K_Import ==
    /\ script = "kg_gen_cli" /\ pc = "import"
    /\ \E ok \in BOOLEAN :
       IF ok THEN Pass("import", "parse") ELSE Fail("import")
    /\ UNCHANGED <<text, mockVars, script, env, graph, fragment, fs>>

K_ParseArgs ==
    /\ script = "kg_gen_cli" /\ pc = "parse"
    /\ \E ok \in BOOLEAN :
       IF ok THEN Pass("parse", "check_input") ELSE Fail("parse")
    /\ UNCHANGED <<text, mockVars, script, env, graph, fragment, fs>>

K_CheckInput ==
    /\ script = "kg_gen_cli" /\ pc = "check_input"
    /\ \E ok \in BOOLEAN :
       IF ok THEN Pass("check_input", "read") ELSE Fail("check_input")
    /\ UNCHANGED <<text, mockVars, script, env, graph, fragment, fs>>

K_Read ==
    /\ script = "kg_gen_cli" /\ pc = "read"
    /\ \E ok \in BOOLEAN :
       IF ok
       THEN Pass("read", "key") /\ text' = env.text
       ELSE Fail("read") /\ text' = text
    /\ UNCHANGED <<mockVars, script, env, graph, fragment, fs>>

K_CheckKey ==
    /\ script = "kg_gen_cli" /\ pc = "key"
    /\ IF ApiKeyMissing(env.api_key) THEN Fail("key") ELSE Pass("key", "init")
    /\ UNCHANGED <<text, mockVars, script, env, graph, fragment, fs>>

K_Init ==
    /\ script = "kg_gen_cli" /\ pc = "init"
    /\ \E ok \in BOOLEAN :
       IF ok THEN Pass("init", "generate") ELSE Fail("init")
    /\ UNCHANGED <<text, mockVars, script, env, graph, fragment, fs>>

K_Generate ==
    /\ script = "kg_gen_cli" /\ pc = "generate"
    /\ \E ok \in BOOLEAN :
       IF ok
       THEN \E g \in Graphs :
               /\ Pass("generate", "write")
               /\ graph' = Some(g)
               /\ fragment' =
                     Some([note_id |-> Join(SplitFirst(Basename(env.input_path), "."))]
                          @@ ConvertGraph(g))
       ELSE /\ Fail("generate")
            /\ UNCHANGED <<graph, fragment>>
    /\ UNCHANGED <<text, mockVars, script, env, fs>>

\* open(args.output, 'w') creates the file, never a directory
K_Write ==
    /\ script = "kg_gen_cli" /\ pc = "write"
    /\ IF env.missing = 0 /\ env.writable
       THEN /\ Finish("write")
            /\ fs' = [fs EXCEPT !.file = "written", !.content = fragment]
       ELSE /\ Fail("write")
            /\ fs' = fs
    /\ UNCHANGED <<text, mockVars, script, env, graph, fragment>>

(* mock_kg_gen.py *)

M_ParseArgs ==
    /\ script = "mock_kg_gen" /\ pc = "parse"
    /\ \E ok \in BOOLEAN :
       IF ok THEN Pass("parse", "read") ELSE Fail("parse")
    /\ UNCHANGED <<text, mockVars, script, env, graph, fragment, fs>>

M_Read ==
    /\ script = "mock_kg_gen" /\ pc = "read"
    /\ \E ok \in BOOLEAN :
       IF ok
       THEN Pass("read", "generate") /\ text' = env.text
       ELSE Fail("read") /\ text' = text
    /\ UNCHANGED <<mockVars, script, env, graph, fragment, fs>>

\* extract_entities, extract_relations and the fragment; an exception of the
\* two functions is not caught
M_Generate ==
    /\ script = "mock_kg_gen" /\ pc = "generate"
    /\ \E r \in extract_entities(text) :
          LET rel == extract_relations(r.entities, r.entity_map)
          IN  /\ entities' = r.entities
              /\ entity_map' = r.entity_map
              /\ relations' = rel.relations
              /\ triples' = rel.triples
              /\ raised' = rel.raised
              /\ IF rel.raised
                 THEN Fail("generate") /\ fragment' = fragment
                 ELSE /\ Pass("generate", "write")
                      /\ fragment' =
                            Some([note_id   |-> Join(SplitFirst(Basename(env.input_path), "-")),
                                  entities  |-> r.entities,
                                  relations |-> rel.relations,
                                  triples   |-> rel.triples])
    /\ UNCHANGED <<text, script, env, graph, fs>>

\* os.makedirs(os.path.dirname(args.output), exist_ok=True) raises for the
\* empty dirname of a path without a directory part
M_Write ==
    /\ script = "mock_kg_gen" /\ pc = "write"
    /\ IF env.has_dir /\ env.writable
       THEN /\ Finish("write")
            /\ fs' = [dirs |-> env.missing, file |-> "written", content |-> fragment]
       ELSE /\ Fail("write")
            /\ fs' = fs
    /\ UNCHANGED <<text, mockVars, script, env, graph, fragment>>

(* direct_kggen_test.py *)

D_Import ==
    /\ script = "direct_kggen_test" /\ pc = "import"
    /\ \E ok \in BOOLEAN :
       IF ok THEN Pass("import", "key") ELSE Fail("import")
    /\ UNCHANGED <<text, mockVars, script, env, graph, fragment, fs>>

D_CheckKey ==
    /\ script = "direct_kggen_test" /\ pc = "key"
    /\ IF ApiKeyMissing(env.api_key) THEN Fail("key") ELSE Pass("key", "mkdir")
    /\ UNCHANGED <<text, mockVars, script, env, graph, fragment, fs>>

\* Path(fragment_dir).mkdir(exist_ok=True) creates one directory, not its
\* parents
D_Mkdir ==
    /\ script = "direct_kggen_test" /\ pc = "mkdir"
    /\ IF env.missing = 0
       THEN Pass("mkdir", "init") /\ fs' = fs
       ELSE IF env.missing = 1 /\ env.writable
       THEN Pass("mkdir", "init") /\ fs' = [fs EXCEPT !.dirs = 1]
       ELSE Fail("mkdir") /\ fs' = fs
    /\ UNCHANGED <<text, mockVars, script, env, graph, fragment>>

D_Init ==
    /\ script = "direct_kggen_test" /\ pc = "init"
    /\ \E ok \in BOOLEAN :
       IF ok THEN Pass("init", "generate") ELSE Fail("init")
    /\ UNCHANGED <<text, mockVars, script, env, graph, fragment, fs>>

D_Generate ==
    /\ script = "direct_kggen_test" /\ pc = "generate"
    /\ \E ok \in BOOLEAN :
       IF ok
       THEN \E g \in Graphs :
               /\ Pass("generate", "write")
               /\ graph' = Some(g)
               /\ fragment' = Some([note_id |-> "uuid4"] @@ ConvertGraph(g))
       ELSE /\ Fail("generate")
            /\ UNCHANGED <<graph, fragment>>
    /\ UNCHANGED <<text, mockVars, script, env, fs>>

D_Write ==
    /\ script = "direct_kggen_test" /\ pc = "write"
    /\ IF env.writable
       THEN /\ Finish("write")
            /\ fs' = [fs EXCEPT !.file = "written", !.content = fragment]
       ELSE /\ Fail("write")
            /\ fs' = fs
    /\ UNCHANGED <<text, mockVars, script, env, graph, fragment>>

CliNext ==
    \/ K_Import \/ K_ParseArgs \/ K_CheckInput \/ K_Read \/ K_CheckKey
    \/ K_Init \/ K_Generate \/ K_Write
    \/ M_ParseArgs \/ M_Read \/ M_Generate \/ M_Write
    \/ D_Import \/ D_CheckKey \/ D_Mkdir \/ D_Init \/ D_Generate \/ D_Write

\* a running process takes its next step: every step is a finite computation
\* or a call that returns or raises
CliSpec == CliInit /\ [][CliNext]_vars /\ WF_vars(CliNext)

----------------------------------------------------------------------------
(* Claims about the scripts *)

Succeeded(step) == \E i \in DOMAIN steps : steps[i] = <<step, "ok">>
Failed(step) == \E i \in DOMAIN steps : steps[i] = <<step, "fail">>
Ran(step) == \E i \in DOMAIN steps : steps[i][1] = step

C9_FragmentWritten ==
    (pc = "exited" /\ Succeeded("generate") /\ env.writable) =>
        /\ fs.file = "written"
        /\ exit_code = 0

====
